---- MODULE Spec2Model ----
(***************************************************************************)
(* The tween playback engine of Phaser (Tween.js): the per-property        *)
(* TweenData state machine (updateTweenData, setStateFromEnd,              *)
(* setStateFromStart) and the Tween aggregate (init, calcDuration, update, *)
(* updateCountdown, updateActive, nextState, seek).                        *)
(*                                                                         *)
(* Time is counted in integer units; one unit stands for the 0.001 the     *)
(* code floors a duration to, so every time of the code is a whole number  *)
(* of units.  Property values and progress are exact rationals [n, d].     *)
(***************************************************************************)
EXTENDS Integers, Sequences, FiniteSets, TLC

VARIABLES
    tw,      \* the Tween's own fields
    data,    \* tween.data: the sequence of TweenData units
    prop,    \* prop[i]: the tweened property target[key] of unit i
    ev,      \* events emitted by the last call, in order: <<event, unit>>
    cb,      \* callback slots invoked by the last call, in order
    req,     \* requests the last call made of its parent and of its event
             \* emitter: makeActive, reset, remove, removeAllListeners
    threw,   \* the last call raised a TypeError (null target dereferenced)
    hung,    \* the last call never returns (seek's do-while cannot exit)
    last,    \* the last call: its name, arguments and return value
    hist     \* history of the run, read by the properties only

vars == <<tw, data, prop, ev, cb, req, threw, hung, last, hist>>

----------------------------------------------------------------------------
(* Bounds of the model *)

MaxCalls == 5          \* calls made in one behaviour of playback
MaxSeekCalls == 4      \* calls made in one behaviour with seeks
MaxDelta == 2          \* largest delta handed to update / updateTweenData
MaxSeeks == 2          \* seek calls made in one behaviour
MaxOps == 2            \* control calls (play, restart, stop, ...) in one behaviour

(* Program constants *)

MinDuration == 1       \* Math.max(gen.duration(...), 0.001): 0.001 is one unit
Sentinel == 999        \* 999999999999 in the source, the counter standing for
                       \* "forever"; scaled to fit TLC's 32-bit integers and
                       \* still larger than any count a bounded run reaches
MaxSafeInteger == 2147483647   \* MATH_CONST.MAX_SAFE_INTEGER, scaled likewise
DefaultStep == 16600   \* seek's default delta, 16.6, in units of 0.001
OneFrame == 1000       \* the delta 1 of a useFrames tween, in units of 0.001

----------------------------------------------------------------------------
(* Exact rational arithmetic for values and progress *)

Abs(x) == IF x < 0 THEN -x ELSE x

Min(a, b) == IF a < b THEN a ELSE b

Max(a, b) == IF a > b THEN a ELSE b

RECURSIVE GCD(_, _)
GCD(a, b) == IF b = 0 THEN a ELSE GCD(b, a % b)

Rat(n, d) == LET g == GCD(Abs(n), d) IN [n |-> n \div g, d |-> d \div g]

RInt(k) == [n |-> k, d |-> 1]

RAdd(a, b) == Rat(a.n * b.d + b.n * a.d, a.d * b.d)

RSub(a, b) == Rat(a.n * b.d - b.n * a.d, a.d * b.d)

RMul(a, b) == Rat(a.n * b.n, a.d * b.d)

RLt(a, b) == a.n * b.d < b.n * a.d

RLe(a, b) == a.n * b.d <= b.n * a.d

ROne == RInt(1)

RZero == RInt(0)

----------------------------------------------------------------------------
(* The machine a call works on: the program state plus what the call emits *)

Machine == [tw |-> tw, data |-> data, prop |-> prop,
            ev |-> <<>>, cb |-> <<>>, req |-> <<>>, threw |-> FALSE, ret |-> FALSE]

SetTD(m, i, td) == [m EXCEPT !.data[i] = td]

Throw(m) == [m EXCEPT !.threw = TRUE]

(* this.parent.makeActive(this), this.parent.reset(this), this.makeActive(), *)
(* this.removeAllListeners(): a request made of the manager or the emitter   *)
Request(m, what) == [m EXCEPT !.req = Append(@, what)]

(* tweenData.ease: Linear, or Quad.In *)
Ease(td, p) == IF td.ease = "Linear" THEN p ELSE RMul(p, p)

(* tweenData.getStartValue(target, key, value, ...) and getEndValue: the    *)
(* caller's callables.  "value" hands back the value it is given (a plain  *)
(* number or "from/to" property), "from"/"to" a configured constant, "rel"  *)
(* the value it is given plus a constant ("+=n").                           *)
GetStartValue(td, value) == IF td.startGen = "value" THEN value ELSE RInt(td.from)

GetEndValue(td, value) == IF td.endGen = "to" THEN RInt(td.to) ELSE RAdd(value, RInt(td.to))

----------------------------------------------------------------------------
(* Notifications *)

(* Tween.dispatchTweenDataEvent: emit the event and invoke the callback    *)
(* slot, unless the tween is seeking.                                      *)
dispatchTweenDataEvent(m, event, slot, i) ==
    IF ~m.tw.isSeeking
    THEN [m EXCEPT !.ev = Append(@, <<event, i>>),
                   !.cb = IF slot \in m.tw.callbacks THEN Append(@, slot) ELSE @]
    ELSE m

(* Tween.dispatchEvent: the same for an event of the Tween itself (unit 0) *)
dispatchEvent(m, event, slot) ==
    IF ~m.tw.isSeeking
    THEN [m EXCEPT !.ev = Append(@, <<event, 0>>),
                   !.cb = IF slot \in m.tw.callbacks THEN Append(@, slot) ELSE @]
    ELSE m

----------------------------------------------------------------------------
(* The TweenData state machine *)

(* tweenData.target.toggleFlipX() / toggleFlipY() of setStateFromEnd and   *)
(* setStateFromStart: a null target makes the call raise.                  *)
ToggleFlips(m, i) ==
    LET td == m.data[i] IN
    IF ~(td.flipX \/ td.flipY) THEN m
    ELSE IF td.target = 0 THEN Throw(m)
    ELSE [m EXCEPT !.prop[i].flipX = IF td.flipX THEN ~@ ELSE @,
                   !.prop[i].flipY = IF td.flipY THEN ~@ ELSE @]

(* The "Delay?" tail shared by setStateFromEnd and setStateFromStart *)
RepeatTail_NotifyAtPassEnd(m, i, diff) ==
    LET td == m.data[i] IN
    IF td.repeatDelay > 0
    THEN LET td1 == [td EXCEPT !.elapsed = td.repeatDelay - diff,
                               !.current = td.start] IN
         IF td.target = 0
         THEN Throw(SetTD(m, i, td1))
         ELSE [SetTD(dispatchTweenDataEvent(m, "repeat", "onRepeat", i), i,
                     [td1 EXCEPT !.state = "REPEAT_DELAY"])
                  EXCEPT !.prop[i].val = td1.current]
    ELSE SetTD(dispatchTweenDataEvent(m, "repeat", "onRepeat", i), i,
               [td EXCEPT !.state = "PLAYING_FORWARD"])

RepeatTail(m, i, diff) ==
    LET td == m.data[i] IN
    IF td.repeatDelay > 0
    THEN LET td1 == [td EXCEPT !.elapsed = td.repeatDelay - diff,
                               !.current = td.start] IN
         IF td.target = 0
         THEN Throw(SetTD(m, i, td1))
         ELSE [SetTD(m, i, [td1 EXCEPT !.state = "REPEAT_DELAY"])
                  EXCEPT !.prop[i].val = td1.current]
    ELSE SetTD(dispatchTweenDataEvent(m, "repeat", "onRepeat", i), i,
               [td EXCEPT !.state = "PLAYING_FORWARD"])

(* Tween.setStateFromEnd, with the caller's tweenData.state = <result> *)
setStateFromEnd(m, i, diff) ==
    LET td == m.data[i] IN
    IF td.yoyo
    THEN LET td1 == [td EXCEPT !.elapsed = diff, !.progress = Rat(diff, td.duration)]
             m1 == ToggleFlips(SetTD(m, i, td1), i)
         IN  IF m1.threw THEN m1
             ELSE LET m2 == dispatchTweenDataEvent(m1, "yoyo", "onYoyo", i) IN
                  SetTD(m2, i, [td1 EXCEPT !.start = GetStartValue(td1, td1.start),
                                           !.state = "PLAYING_BACKWARD"])
    ELSE IF td.repeatCounter > 0
    THEN LET td1 == [td EXCEPT !.repeatCounter = @ - 1, !.elapsed = diff,
                               !.progress = Rat(diff, td.duration)]
             m1 == ToggleFlips(SetTD(m, i, td1), i)
         IN  IF m1.threw THEN m1
             ELSE LET s1 == GetStartValue(td1, td1.start)
                      td2 == [td1 EXCEPT !.start = s1, !.end = GetEndValue(td1, s1)]
                  IN  RepeatTail(SetTD(m1, i, td2), i, diff)
    ELSE SetTD(m, i, [td EXCEPT !.state = "COMPLETE"])

(* Tween.setStateFromStart, with the caller's tweenData.state = <result> *)
setStateFromStart_DiffDropped(m, i, diff) ==
    LET td == m.data[i] IN
    IF td.repeatCounter > 0
    THEN LET td1 == [td EXCEPT !.repeatCounter = @ - 1, !.elapsed = 0,
                               !.progress = RZero]
             m1 == ToggleFlips(SetTD(m, i, td1), i)
         IN  IF m1.threw THEN m1
             ELSE LET td2 == [td1 EXCEPT !.end = GetEndValue(td1, td1.start)] IN
                  RepeatTail(SetTD(m1, i, td2), i, 0)
    ELSE SetTD(m, i, [td EXCEPT !.state = "COMPLETE"])

setStateFromStart(m, i, diff) ==
    LET td == m.data[i] IN
    IF td.repeatCounter > 0
    THEN LET td1 == [td EXCEPT !.repeatCounter = @ - 1, !.elapsed = diff,
                               !.progress = Rat(diff, td.duration)]
             m1 == ToggleFlips(SetTD(m, i, td1), i)
         IN  IF m1.threw THEN m1
             ELSE LET td2 == [td1 EXCEPT !.end = GetEndValue(td1, td1.start)] IN
                  RepeatTail(SetTD(m1, i, td2), i, diff)
    ELSE SetTD(m, i, [td EXCEPT !.state = "COMPLETE"])

(* var v = (forward) ? tweenData.ease(progress) : tweenData.ease(1 - progress) *)
EasedValue_Unmirrored(td, forward, progress) == Ease(td, progress)

EasedValue(td, forward, progress) ==
    IF forward THEN Ease(td, progress) ELSE Ease(td, RSub(ROne, progress))

(* The value written while playing: start + (end - start) * v *)
Interpolate_FromZero(td, v) == RMul(RSub(td.end, td.start), v)

Interpolate(td, v) == RAdd(td.start, RMul(RSub(td.end, td.start), v))

(* updateTweenData, case PLAYING_FORWARD / PLAYING_BACKWARD, target present *)
UpdatePlaying(m, i, delta) ==
    LET td == m.data[i]
        e0 == td.elapsed + delta
        diff == IF e0 > td.duration THEN e0 - td.duration ELSE 0
        elapsed == IF e0 > td.duration THEN td.duration ELSE e0
        forward == (td.state = "PLAYING_FORWARD")
        progress == Rat(elapsed, td.duration)
        td1 == [td EXCEPT !.elapsed = elapsed, !.progress = progress,
                          !.previous = td.current]
        m1 == IF progress = ROne
              THEN IF forward
                   THEN LET td2 == [td1 EXCEPT !.current = td1.end]
                            m2 == [SetTD(m, i, td2) EXCEPT !.prop[i].val = td1.end]
                        IN  IF td.hold > 0
                            THEN SetTD(m2, i, [td2 EXCEPT !.elapsed = td.hold - diff,
                                                          !.state = "HOLD_DELAY"])
                            ELSE setStateFromEnd(m2, i, diff)
                   ELSE LET td2 == [td1 EXCEPT !.current = td1.start]
                            m2 == [SetTD(m, i, td2) EXCEPT !.prop[i].val = td1.start]
                        IN  setStateFromStart(m2, i, diff)
              ELSE LET v == EasedValue(td, forward, progress)
                       td2 == [td1 EXCEPT !.current = Interpolate(td1, v)]
                   IN  [SetTD(m, i, td2) EXCEPT !.prop[i].val = td2.current]
    IN  IF m1.threw THEN m1
        ELSE dispatchTweenDataEvent(m1, "update", "onUpdate", i)

(* Tween.updateTweenData: the machine after the call *)
updateTweenData(m, i, delta) ==
    LET td == m.data[i] IN
    CASE td.state \in {"PLAYING_FORWARD", "PLAYING_BACKWARD"} ->
            IF td.target = 0
            THEN SetTD(m, i, [td EXCEPT !.state = "COMPLETE"])
            ELSE UpdatePlaying(m, i, delta)
      [] td.state = "DELAY" ->
            LET e == td.elapsed - delta IN
            IF e <= 0
            THEN SetTD(m, i, [td EXCEPT !.elapsed = Abs(e), !.state = "PENDING_RENDER"])
            ELSE SetTD(m, i, [td EXCEPT !.elapsed = e])
      [] td.state = "REPEAT_DELAY" ->
            LET e == td.elapsed - delta IN
            IF e <= 0
            THEN dispatchTweenDataEvent(
                     SetTD(m, i, [td EXCEPT !.elapsed = Abs(e),
                                            !.state = "PLAYING_FORWARD"]),
                     "repeat", "onRepeat", i)
            ELSE SetTD(m, i, [td EXCEPT !.elapsed = e])
      [] td.state = "HOLD_DELAY" ->
            LET e == td.elapsed - delta IN
            IF e <= 0
            THEN setStateFromEnd(SetTD(m, i, [td EXCEPT !.elapsed = e]), i, Abs(e))
            ELSE SetTD(m, i, [td EXCEPT !.elapsed = e])
      [] td.state = "PENDING_RENDER" ->
            IF td.target # 0
            THEN LET s1 == GetStartValue(td, m.prop[i].val)
                     td1 == [td EXCEPT !.start = s1, !.end = GetEndValue(td, s1),
                                       !.current = s1, !.state = "PLAYING_FORWARD"]
                 IN  [SetTD(m, i, td1) EXCEPT !.prop[i].val = s1]
            ELSE SetTD(m, i, [td EXCEPT !.state = "COMPLETE"])
      [] OTHER -> m

(* updateTweenData's return value: the unit is still playing *)
StillPlaying(m, i) == m.data[i].state # "COMPLETE"

----------------------------------------------------------------------------
(* The Tween *)

(* The counter standing for a repeat / loop count: the sentinel for -1 *)
Counter(n) == IF n = -1 THEN Sentinel ELSE n

(* Tween.init, the body of its loop for one unit *)
InitTweenData_NoSentinel(td) ==
    LET td1 == [td EXCEPT !.delay = td.gen.delay,
                          !.duration = Max(td.gen.duration, MinDuration),
                          !.hold = td.gen.hold,
                          !.repeat = td.gen.repeat,
                          !.repeatDelay = td.gen.repeatDelay,
                          !.repeatCounter = td.gen.repeat,
                          !.state = "PENDING_RENDER"]
    IN  IF td1.delay > 0
        THEN [td1 EXCEPT !.elapsed = td1.delay, !.state = "DELAY"]
        ELSE td1

InitTweenData_NoPendingRender(td) ==
    LET td1 == [td EXCEPT !.delay = td.gen.delay,
                          !.duration = Max(td.gen.duration, MinDuration),
                          !.hold = td.gen.hold,
                          !.repeat = td.gen.repeat,
                          !.repeatDelay = td.gen.repeatDelay,
                          !.repeatCounter = Counter(td.gen.repeat),
                          !.state = "PLAYING_FORWARD"]
    IN  IF td1.delay > 0
        THEN [td1 EXCEPT !.elapsed = td1.delay, !.state = "DELAY"]
        ELSE td1

InitTweenData(td) ==
    LET td1 == [td EXCEPT !.delay = td.gen.delay,
                          !.duration = Max(td.gen.duration, MinDuration),
                          !.hold = td.gen.hold,
                          !.repeat = td.gen.repeat,
                          !.repeatDelay = td.gen.repeatDelay,
                          !.repeatCounter = Counter(td.gen.repeat),
                          !.state = "PENDING_RENDER"]
    IN  IF td1.delay > 0
        THEN [td1 EXCEPT !.elapsed = td1.delay, !.state = "DELAY"]
        ELSE td1

(* Tween.calcDuration, the per-unit part: t1, t2 and totalDuration *)
CalcTweenData_HoldTwice(td) ==
    LET t1 == td.duration + td.hold + (IF td.yoyo THEN td.duration + td.hold ELSE 0)
        t2 == t1 + td.repeatDelay
        base == td.delay + t1
        total == IF td.repeat = -1 THEN base + t2 * Sentinel
                 ELSE IF td.repeat > 0 THEN base + t2 * td.repeat
                 ELSE base
    IN  [td EXCEPT !.t1 = t1, !.t2 = t2, !.totalDuration = total]

CalcTweenData(td) ==
    LET t1 == td.duration + td.hold + (IF td.yoyo THEN td.duration ELSE 0)
        t2 == t1 + td.repeatDelay
        base == td.delay + t1
        total == IF td.repeat = -1 THEN base + t2 * Sentinel
                 ELSE IF td.repeat > 0 THEN base + t2 * td.repeat
                 ELSE base
    IN  [td EXCEPT !.t1 = t1, !.t2 = t2, !.totalDuration = total]

RECURSIVE MaxTotal(_, _, _)
MaxTotal(d, i, acc) ==
    IF i > Len(d) THEN acc
    ELSE MaxTotal(d, i + 1, IF d[i].totalDuration > acc THEN d[i].totalDuration ELSE acc)

RECURSIVE MinDelay(_, _, _)
MinDelay(d, i, acc) ==
    IF i > Len(d) THEN acc
    ELSE MinDelay(d, i + 1, IF d[i].delay < acc THEN d[i].delay ELSE acc)

(* Tween.calcDuration *)
calcDuration_NoLoopDelay(m) ==
    LET d == [i \in DOMAIN m.data |-> CalcTweenData(m.data[i])]
        duration == Max(MaxTotal(d, 1, 0), MinDuration)
        loopCounter == Counter(m.tw.loop)
        total == IF loopCounter > 0
                 THEN duration + m.tw.completeDelay + duration * loopCounter
                 ELSE duration + m.tw.completeDelay
    IN  [m EXCEPT !.data = d,
                  !.tw.duration = duration,
                  !.tw.loopCounter = loopCounter,
                  !.tw.totalDuration = total,
                  !.tw.startDelay = MinDelay(d, 1, MaxSafeInteger)]

calcDuration(m) ==
    LET d == [i \in DOMAIN m.data |-> CalcTweenData(m.data[i])]
        duration == Max(MaxTotal(d, 1, 0), MinDuration)
        loopCounter == Counter(m.tw.loop)
        total == IF loopCounter > 0
                 THEN duration + m.tw.completeDelay
                          + (duration + m.tw.loopDelay) * loopCounter
                 ELSE duration + m.tw.completeDelay
    IN  [m EXCEPT !.data = d,
                  !.tw.duration = duration,
                  !.tw.loopCounter = loopCounter,
                  !.tw.totalDuration = total,
                  !.tw.startDelay = MinDelay(d, 1, MaxSafeInteger)]

(* Tween.init *)
init(m) ==
    LET m1 == calcDuration([m EXCEPT !.data = [i \in DOMAIN m.data |->
                                                  InitTweenData(m.data[i])]])
    IN  [m1 EXCEPT !.tw.progress = RZero, !.tw.totalProgress = RZero,
                   !.tw.elapsed = 0, !.tw.totalElapsed = 0,
                   !.tw.state = "PLAYING"]

(* Tween.resetTweenData, the body of its loop for one unit *)
ResetTweenData(td, resetFromLoop) ==
    LET td1 == [td EXCEPT !.progress = RZero, !.elapsed = 0,
                          !.repeatCounter = Counter(td.repeat)]
        td2 == IF resetFromLoop
               THEN LET s1 == GetStartValue(td1, td1.start) IN
                    [td1 EXCEPT !.start = s1, !.end = GetEndValue(td1, td1.end),
                                !.current = s1, !.state = "PLAYING_FORWARD"]
               ELSE [td1 EXCEPT !.state = "PENDING_RENDER"]
    IN  IF td2.delay > 0
        THEN [td2 EXCEPT !.elapsed = td2.delay, !.state = "DELAY"]
        ELSE td2

(* Tween.resetTweenData *)
resetTweenData(m, resetFromLoop) ==
    [m EXCEPT !.data = [i \in DOMAIN m.data |-> ResetTweenData(m.data[i], resetFromLoop)]]

(* Tween.nextState *)
nextState_UnitsNotReset(m) ==
    IF m.tw.loopCounter > 0
    THEN LET m1 == [m EXCEPT !.tw.elapsed = 0, !.tw.progress = RZero,
                             !.tw.loopCounter = @ - 1]
         IN  IF m1.tw.loopDelay > 0
             THEN [m1 EXCEPT !.tw.countdown = m1.tw.loopDelay, !.tw.state = "LOOP_DELAY"]
             ELSE dispatchEvent([m1 EXCEPT !.tw.state = "PLAYING"], "loop", "onLoop")
    ELSE IF m.tw.completeDelay > 0
    THEN [m EXCEPT !.tw.state = "COMPLETE_DELAY", !.tw.countdown = m.tw.completeDelay]
    ELSE dispatchEvent([m EXCEPT !.tw.state = "PENDING_REMOVE"], "complete", "onComplete")

nextState(m) ==
    IF m.tw.loopCounter > 0
    THEN LET m1 == resetTweenData([m EXCEPT !.tw.elapsed = 0, !.tw.progress = RZero,
                                            !.tw.loopCounter = @ - 1], TRUE)
         IN  IF m1.tw.loopDelay > 0
             THEN [m1 EXCEPT !.tw.countdown = m1.tw.loopDelay, !.tw.state = "LOOP_DELAY"]
             ELSE dispatchEvent([m1 EXCEPT !.tw.state = "PLAYING"], "loop", "onLoop")
    ELSE IF m.tw.completeDelay > 0
    THEN [m EXCEPT !.tw.state = "COMPLETE_DELAY", !.tw.countdown = m.tw.completeDelay]
    ELSE dispatchEvent([m EXCEPT !.tw.state = "PENDING_REMOVE"], "complete", "onComplete")

(* Tween.updateCountdown; slot is "" when update passes no callback *)
updateCountdown(m, delta, state, event, slot) ==
    LET m1 == [m EXCEPT !.tw.countdown = @ - delta] IN
    IF m1.tw.countdown <= 0
    THEN LET m2 == [m1 EXCEPT !.tw.state = state] IN
         IF slot \in m2.tw.callbacks THEN dispatchEvent(m2, event, slot) ELSE m2
    ELSE m1

(* The for loop of updateActive from unit i on: [m, stillRunning].  m1 is   *)
(* the machine updateTweenData left for unit i.                            *)
RECURSIVE UpdateUnits(_, _, _, _)
UpdatedUnit(m1, i, delta, stillRunning) ==
    UpdateUnits(m1, i + 1, delta, stillRunning \/ (~m1.threw /\ StillPlaying(m1, i)))

UpdateUnits(m, i, delta, stillRunning) ==
    IF i > Len(m.data) \/ m.threw THEN [m |-> m, stillRunning |-> stillRunning]
    ELSE UpdatedUnit(updateTweenData(m, i, delta), i, delta, stillRunning)

(* updateActive: startDelay has been counted down *)
StartCountdown(m) ==
    IF m.tw.startDelay <= 0
    THEN dispatchEvent([m EXCEPT !.tw.hasStarted = TRUE], "start", "onStart")
    ELSE m

(* updateActive: if (!this.hasStarted && !this.isSeeking) { ... } *)
StartCheck_EveryTick(m, delta) ==
    IF ~m.tw.isSeeking
    THEN StartCountdown([m EXCEPT !.tw.startDelay = @ - delta])
    ELSE m

StartCheck(m, delta) ==
    IF ~m.tw.hasStarted /\ ~m.tw.isSeeking
    THEN StartCountdown([m EXCEPT !.tw.startDelay = @ - delta])
    ELSE m

(* updateActive: if (!stillRunning) { this.nextState(); } *)
StillRunningCheck(r) ==
    IF r.m.threw THEN r.m
    ELSE IF ~r.stillRunning THEN nextState(r.m)
    ELSE r.m

(* Tween.updateActive *)
updateActive(m, delta) ==
    StillRunningCheck(UpdateUnits(StartCheck(m, delta), 1, delta, FALSE))

(* Math.min(elapsed / duration, 1) *)
Progress_Unclamped(elapsed, duration) == Rat(elapsed, duration)

Progress(elapsed, duration) == Rat(Min(elapsed, duration), duration)

(* update: the delta scaled by the time scales, or one frame *)
ScaledDelta(m, delta0) ==
    IF m.tw.useFrames THEN OneFrame * m.tw.parentTimeScale
    ELSE delta0 * m.tw.timeScale * m.tw.parentTimeScale

(* update: elapsed, progress, totalElapsed and totalProgress move on *)
AddElapsed(m, delta) ==
    [m EXCEPT !.tw.elapsed = m.tw.elapsed + delta,
              !.tw.progress = Progress(m.tw.elapsed + delta, m.tw.duration),
              !.tw.totalElapsed = m.tw.totalElapsed + delta,
              !.tw.totalProgress = Progress(m.tw.totalElapsed + delta, m.tw.totalDuration)]

(* update: the delay states count down *)
UpdateDelayState(m, delta) ==
    CASE m.tw.state = "LOOP_DELAY" ->
             updateCountdown(m, delta, "PLAYING", "loop", "onLoop")
      [] m.tw.state = "OFFSET_DELAY" ->
             updateCountdown(m, delta, "PLAYING", "", "")
      [] m.tw.state = "COMPLETE_DELAY" ->
             updateCountdown(m, delta, "PENDING_REMOVE", "complete", "onComplete")
      [] OTHER -> m

(* update: "Make its own check so the states above can toggle to active on *)
(* this frame"                                                             *)
UpdatePlayingState(m, delta) ==
    IF m.tw.state = "PLAYING" THEN updateActive(m, delta) ELSE m

(* update: return (this.state === TWEEN_CONST.PENDING_REMOVE) *)
UpdateReturn(m) ==
    IF m.threw THEN m ELSE [m EXCEPT !.ret = (m.tw.state = "PENDING_REMOVE")]

(* update, once it is neither removed nor paused, with the scaled delta *)
UpdateBy(m, delta) ==
    UpdateReturn(UpdatePlayingState(UpdateDelayState(AddElapsed(m, delta), delta), delta))

(* Tween.update(timestamp, delta); the returned value is left in ret *)
update_RemovedNotChecked(m, delta0) ==
    IF m.tw.paused /\ ~m.tw.isSeeking THEN [m EXCEPT !.ret = FALSE]
    ELSE UpdateBy(m, ScaledDelta(m, delta0))

update(m, delta0) ==
    IF m.tw.state \in {"PENDING_REMOVE", "DESTROYED"} THEN [m EXCEPT !.ret = TRUE]
    ELSE IF m.tw.paused /\ ~m.tw.isSeeking THEN [m EXCEPT !.ret = FALSE]
    ELSE UpdateBy(m, ScaledDelta(m, delta0))

(* Tween.seek, the body of its for loop for unit i.  repeatCounter is set    *)
(* from the repeat of the previous resolution, before gen.repeat is asked.  *)
(* The callables are asked again: regen is what they return when they are   *)
(* (the same as gen, unless they are stateful).                             *)
SeekResetTweenData_RawRepeat(td) ==
    [td EXCEPT !.progress = RZero, !.elapsed = 0,
               !.repeatCounter = td.repeat,
               !.delay = td.regen.delay,
               !.duration = Max(td.regen.duration, MinDuration),
               !.hold = td.regen.hold,
               !.repeat = td.regen.repeat,
               !.repeatDelay = td.regen.repeatDelay,
               !.current = td.start,
               !.state = "PLAYING_FORWARD"]

SeekResetTweenData(td) ==
    [td EXCEPT !.progress = RZero, !.elapsed = 0,
               !.repeatCounter = Counter(td.repeat),
               !.delay = td.regen.delay,
               !.duration = Max(td.regen.duration, MinDuration),
               !.hold = td.regen.hold,
               !.repeat = td.regen.repeat,
               !.repeatDelay = td.regen.repeatDelay,
               !.current = td.start,
               !.state = "PLAYING_FORWARD"]

(* seek: if (tweenData.delay > 0) { ... DELAY }, after updateTweenData *)
SeekDelay(m, i) ==
    IF m.threw THEN m
    ELSE IF m.data[i].delay > 0
    THEN SetTD(m, i, [m.data[i] EXCEPT !.elapsed = m.data[i].delay, !.state = "DELAY"])
    ELSE m

SeekTweenData(m, i) ==
    SeekDelay(updateTweenData(SetTD(m, i, SeekResetTweenData(m.data[i])), i, 0), i)

RECURSIVE SeekUnits(_, _)
SeekUnits(m, i) ==
    IF i > Len(m.data) \/ m.threw THEN m ELSE SeekUnits(SeekTweenData(m, i), i + 1)

(* The do-while of Tween.seek: update(0, delta) until totalProgress reaches *)
(* toPosition.  n counts the update calls made.  A call that changes       *)
(* nothing while the condition still holds is repeated forever: the loop   *)
(* never exits (hung).                                                     *)
(* m1 is the machine update(0, delta) made of m.                           *)
RECURSIVE SeekLoop(_, _, _, _)
SeekWhile(m, m1, toPosition, delta, n) ==
    IF m1.threw THEN [m |-> m1, updates |-> n + 1, hung |-> FALSE]
    ELSE IF ~RLt(m1.tw.totalProgress, toPosition)
    THEN [m |-> m1, updates |-> n + 1, hung |-> FALSE]
    ELSE IF m1.tw = m.tw /\ m1.data = m.data /\ m1.prop = m.prop
    THEN [m |-> m1, updates |-> n + 1, hung |-> TRUE]
    ELSE SeekLoop(m1, toPosition, delta, n + 1)

SeekLoop(m, toPosition, delta, n) == SeekWhile(m, update(m, delta), toPosition, delta, n)

(* seek: elapsed, progress, totalElapsed and totalProgress back to 0 *)
SeekResetElapsed(m) ==
    [m EXCEPT !.tw.elapsed = 0, !.tw.progress = RZero,
              !.tw.totalElapsed = 0, !.tw.totalProgress = RZero]

(* seek: this.isSeeking = false, once the do-while has ended *)
SeekDone(r) ==
    IF r.hung \/ r.m.threw THEN r ELSE [r EXCEPT !.m.tw.isSeeking = FALSE]

(* seek: if (toPosition > 0) { ... }, after calcDuration *)
SeekTo(m, toPosition, delta) ==
    IF RLt(RZero, toPosition)
    THEN SeekDone(SeekLoop([m EXCEPT !.tw.isSeeking = TRUE], toPosition, delta, 0))
    ELSE [m |-> m, updates |-> 0, hung |-> FALSE]

(* seek, after its for loop over the units *)
SeekFrom(m, toPosition, delta) ==
    IF m.threw THEN [m |-> m, updates |-> 0, hung |-> FALSE]
    ELSE SeekTo(calcDuration(m), toPosition, delta)

(* seek: if (this.state === TWEEN_CONST.REMOVED) { this.makeActive(); } *)
SeekMakeActive(m) ==
    IF m.tw.state = "REMOVED" THEN Request(m, "makeActive") ELSE m

(* Tween.seek(toPosition, delta): [m, updates, hung] *)
seek(m, toPosition, delta) ==
    SeekFrom(SeekUnits(SeekResetElapsed(SeekMakeActive(m)), 1), toPosition, delta)

----------------------------------------------------------------------------
(* The owner's controls *)

(* A call that returned, in the shape seek hands back: [m, updates, hung] *)
Returned(m) == [m |-> m, updates |-> 0, hung |-> FALSE]

(* The argument left out of a call (undefined): no number *)
NoValue == [n |-> 0, d |-> 0]

(* Tween.updateTo(key, value, startToCurrent) *)
updateTo_EveryKey(m, key, value, startToCurrent) ==
    [m EXCEPT !.data = [i \in DOMAIN m.data |->
        [m.data[i] EXCEPT !.end = value,
                          !.start = IF startToCurrent THEN m.data[i].current ELSE @]]]

updateTo(m, key, value, startToCurrent) ==
    [m EXCEPT !.data = [i \in DOMAIN m.data |->
        IF m.data[i].key = key
        THEN [m.data[i] EXCEPT !.end = value,
                               !.start = IF startToCurrent THEN m.data[i].current ELSE @]
        ELSE m.data[i]]]

(* play, no Timeline: this.paused = false; this.state = PLAYING *)
PlayNow(m) ==
    IF m.threw THEN m ELSE [m EXCEPT !.tw.paused = FALSE, !.tw.state = "PLAYING"]

(* play, in a Timeline: PLAYING, or OFFSET_DELAY for calculatedOffset *)
PlayInTimeline(m) ==
    IF m.tw.calculatedOffset = 0
    THEN [m EXCEPT !.tw.state = "PLAYING"]
    ELSE [m EXCEPT !.tw.countdown = m.tw.calculatedOffset, !.tw.state = "OFFSET_DELAY"]

(* Tween.play(resetFromTimeline) *)
play(m, resetFromTimeline) ==
    IF ~m.tw.parentIsTimeline
    THEN PlayNow(IF m.tw.state \in {"PENDING_REMOVE", "REMOVED"}
                 THEN seek(m, RZero, DefaultStep).m
                 ELSE m)
    ELSE PlayInTimeline(resetTweenData(m, resetFromTimeline))

(* restart: the branch taken on this.state, the counters being zeroed *)
RestartByState(m) ==
    CASE m.tw.state = "PLAYING" -> seek(m, RZero, DefaultStep).m
      [] m.tw.state = "REMOVED" ->
             Request(seek(m, RZero, DefaultStep).m, "parent.makeActive")
      [] m.tw.state = "PENDING_REMOVE" -> Request(m, "parent.reset")
      [] OTHER -> play(m, FALSE)

(* Tween.restart() *)
restart_CountersKept(m) == RestartByState(m)

restart(m) == RestartByState(SeekResetElapsed(m))

(* Tween.complete(delay) *)
complete(m, delay) ==
    IF delay # 0
    THEN [m EXCEPT !.tw.state = "COMPLETE_DELAY", !.tw.countdown = delay]
    ELSE dispatchEvent([m EXCEPT !.tw.state = "PENDING_REMOVE"], "complete", "onComplete")

(* Tween.remove(): this.parent.remove(this), by which the manager sets the   *)
(* tween's state to REMOVED                                                  *)
remove(m) == [Request(m, "parent.remove") EXCEPT !.tw.state = "REMOVED"]

(* stop: the stop event, removeAllListeners(), PENDING_REMOVE *)
StopState(m) ==
    [Request(dispatchEvent(m, "stop", "onStop"), "removeAllListeners")
        EXCEPT !.tw.state = "PENDING_REMOVE"]

(* stop: if (this.state !== TWEEN_CONST.REMOVED) { ... }, after the seek *)
StopUnlessRemoved_EvenRemoved(r) ==
    IF r.hung \/ r.m.threw THEN r
    ELSE [r EXCEPT !.m = StopState(r.m)]

StopUnlessRemoved(r) ==
    IF r.hung \/ r.m.threw \/ r.m.tw.state = "REMOVED" THEN r
    ELSE [r EXCEPT !.m = StopState(r.m)]

(* Tween.stop(resetTo): [m, updates, hung] *)
stop(m, resetTo) ==
    StopUnlessRemoved(IF m.tw.state = "PLAYING" /\ resetTo # NoValue
                      THEN seek(m, resetTo, DefaultStep)
                      ELSE Returned(m))

(* Tween.destroy(): BaseTween's destroy leaves the state DESTROYED, and the  *)
(* Tween lets go of its units: this.data = null                              *)
destroy(m) == [m EXCEPT !.tw.state = "DESTROYED", !.data = <<>>]

----------------------------------------------------------------------------
(* Construction *)

AllSlots == {"onStart", "onUpdate", "onRepeat", "onYoyo", "onLoop", "onComplete", "onStop"}

(* A TweenData as the builder hands it to the Tween: the caller's callables *)
(* (gen, the value generators, ease) and flags, every number still zero.    *)
NewTweenData(c) ==
    [target |-> 1, key |-> c.key, ease |-> c.ease,
     startGen |-> c.startGen, from |-> c.from, endGen |-> c.endGen, to |-> c.to,
     gen |-> c.gen, regen |-> c.regen,
     yoyo |-> c.yoyo, flipX |-> c.flipX, flipY |-> c.flipY,
     start |-> RZero, end |-> RZero, current |-> RZero, previous |-> RZero,
     delay |-> 0, duration |-> 0, hold |-> 0, repeat |-> 0, repeatDelay |-> 0,
     repeatCounter |-> 0, elapsed |-> 0, progress |-> RZero,
     t1 |-> 0, t2 |-> 0, totalDuration |-> 0, state |-> "CREATED"]

(* The Tween before init: BaseTween's fields from the config, Tween's own   *)
(* as its constructor sets them.                                            *)
NewTween(c) ==
    [state |-> "CREATED", paused |-> c.paused, isSeeking |-> FALSE, hasStarted |-> FALSE,
     useFrames |-> c.useFrames, timeScale |-> c.timeScale, parentTimeScale |-> 1,
     elapsed |-> 0, progress |-> RZero, totalElapsed |-> 0, totalProgress |-> RZero,
     duration |-> 0, totalDuration |-> 0, startDelay |-> 0,
     loop |-> c.loop, loopCounter |-> 0, loopDelay |-> c.loopDelay,
     completeDelay |-> c.completeDelay, countdown |-> 0,
     callbacks |-> c.callbacks, parentIsTimeline |-> FALSE, calculatedOffset |-> 0]

(* new Tween(parent, data, targets): the constructor, ending in init() *)
Construct(tc, ucs) ==
    init([tw |-> NewTween(tc),
          data |-> [i \in DOMAIN ucs |-> NewTweenData(ucs[i])],
          prop |-> [i \in DOMAIN ucs |-> [val |-> RInt(ucs[i].initial),
                                          flipX |-> FALSE, flipY |-> FALSE]],
          ev |-> <<>>, cb |-> <<>>, req |-> <<>>, threw |-> FALSE, ret |-> FALSE])

(* The configurations the runs are started from *)

Gen(delay, duration, hold, repeat, repeatDelay) ==
    [delay |-> delay, duration |-> duration, hold |-> hold,
     repeat |-> repeat, repeatDelay |-> repeatDelay]

UnitCfg(g, yoyo, ease, startGen, endGen, flip) ==
    [key |-> "x", ease |-> ease, startGen |-> startGen, from |-> 1,
     endGen |-> endGen, to |-> 9, gen |-> g, regen |-> g, yoyo |-> yoyo,
     flipX |-> flip, flipY |-> FALSE, initial |-> 5]

TweenCfg(loop, loopDelay, completeDelay, paused, callbacks, timeScale, useFrames) ==
    [loop |-> loop, loopDelay |-> loopDelay, completeDelay |-> completeDelay,
     paused |-> paused, callbacks |-> callbacks, timeScale |-> timeScale,
     useFrames |-> useFrames]

PlainTween == TweenCfg(0, 0, 0, FALSE, AllSlots, 1, FALSE)

(* Units driven one at a time through updateTweenData *)
UnitConfigs ==
    { UnitCfg(Gen(dl, du, h, r, rd), y, "Linear", "value", "to", FALSE) :
          dl \in {0, 2}, du \in {0, 2, 3}, h \in {0, 2}, r \in {-1, 0, 1},
          rd \in {0, 2}, y \in BOOLEAN }
    \cup
    { UnitCfg(Gen(0, 3, 0, 1, rd), y, e, sg, eg, FALSE) :
          rd \in {0, 2}, y \in BOOLEAN, e \in {"Linear", "Quad"},
          sg \in {"value", "from"}, eg \in {"to", "rel"} }
    \cup
    { UnitCfg(Gen(0, 2, 2, 1, rd), y, "Linear", "value", "to", TRUE) :
          rd \in {0, 2}, y \in BOOLEAN }

hist0 == [budget |-> MaxCalls, calls |-> 0, seeks |-> 0, sum |-> 0, first |-> 0, pure |-> TRUE, passes |-> 0,
          ended |-> FALSE, fwd |-> <<>>, repeats |-> 0, ops |-> 0, starts |-> 0,
          played |-> 0, rendered |-> 0]

(* How many times event is among the notifications s *)
Emitted(s, event) == Cardinality({k \in DOMAIN s : s[k][1] = event})

Start(m, budget) ==
    /\ tw = m.tw
    /\ data = m.data
    /\ prop = m.prop
    /\ ev = m.ev
    /\ cb = m.cb
    /\ req = m.req
    /\ threw = FALSE
    /\ hung = FALSE
    /\ last = [op |-> "init"]
    /\ hist = [hist0 EXCEPT !.budget = budget]

(* What a call leaves behind *)
Leave(m) ==
    /\ tw' = m.tw
    /\ data' = m.data
    /\ prop' = m.prop
    /\ ev' = m.ev
    /\ cb' = m.cb
    /\ req' = m.req
    /\ threw' = m.threw

Running == ~threw /\ ~hung /\ hist.calls < hist.budget

Deltas == 1 .. MaxDelta

----------------------------------------------------------------------------
(* A unit driven directly: updateTweenData called on data[1] *)

InitUnit == \E c \in UnitConfigs : Start(Construct(PlainTween, <<c>>), MaxCalls)

(* The call ends a pass of the unit: the forward pass (and hold) without    *)
(* yoyo, the backward pass with yoyo.                                       *)
PassEnds(td, delta) ==
    /\ td.target # 0
    /\ IF td.yoyo
       THEN td.state = "PLAYING_BACKWARD" /\ td.elapsed + delta >= td.duration
       ELSE \/ td.state = "PLAYING_FORWARD" /\ td.elapsed + delta >= td.duration
                                            /\ td.hold <= 0
            \/ td.state = "HOLD_DELAY" /\ td.elapsed - delta <= 0

(* The forward values seen so far, by elapsed time *)
Forward(old, new, fwd) ==
    IF old.state = "PLAYING_FORWARD" /\ new.state = "PLAYING_FORWARD"
       /\ old.target # 0 /\ new.elapsed < new.duration /\ new.repeatCounter = old.repeatCounter
    THEN [e \in DOMAIN fwd \cup {new.elapsed} |->
             IF e = new.elapsed THEN new.current ELSE fwd[e]]
    ELSE fwd

Advance(delta) ==
    /\ Running
    /\ \E m \in {updateTweenData(Machine, 1, delta)} :
       /\ Leave(m)
       /\ last' = [op |-> "updateTweenData", delta |-> delta,
                   ret |-> ~m.threw /\ StillPlaying(m, 1), from |-> data[1].state]
       /\ hist' = [hist EXCEPT !.calls = @ + 1,
                               !.passes = IF PassEnds(data[1], delta) THEN @ + 1 ELSE @,
                               !.ended = PassEnds(data[1], delta),
                               !.repeats = @ + Emitted(m.ev, "repeat"),
                               !.fwd = Forward(data[1], m.data[1], @),
                               !.sum = IF hist.pure THEN @ + delta ELSE 0,
                               !.rendered = IF data[1].state = "PENDING_RENDER"
                                            THEN @ + delta ELSE @]
    /\ UNCHANGED hung

(* The target of unit i is destroyed by its owner: tweenData.target = null *)
ClearTarget(i) ==
    /\ Running
    /\ i \in DOMAIN data
    /\ data[i].target # 0
    /\ data' = [data EXCEPT ![i].target = 0]
    /\ last' = [op |-> "clear", from |-> data[i].state]
    /\ hist' = [hist EXCEPT !.calls = @ + 1, !.pure = FALSE, !.ended = FALSE,
                            !.sum = 0, !.first = 0]
    /\ ev' = <<>>
    /\ cb' = <<>>
    /\ req' = <<>>
    /\ UNCHANGED <<tw, prop, threw, hung>>

NextUnit ==
    \/ \E delta \in Deltas : Advance(delta)
    \/ ClearTarget(1)

SpecUnit == InitUnit /\ [][NextUnit]_vars

----------------------------------------------------------------------------
(* Properties of a unit, under SpecUnit *)

(* C2: once a unit's target has been cleared to null, the very next         *)
(* updateTweenData call leaves the unit COMPLETE and returns false without  *)
(* raising an error, and so does every later call.                          *)
C2_NullTargetCompletes ==
    (data[1].target = 0 /\ last.op = "updateTweenData") =>
        (~threw /\ data[1].state = "COMPLETE" /\ last.ret = FALSE)

(* C6: a unit initialised with repeat = -1 whose target stays present never *)
(* enters COMPLETE; every end of a pass takes exactly 1 from repeatCounter, *)
(* which starts at the sentinel, and no unit's repeatCounter goes below 0.  *)
C6_InfiniteRepeatNeverCompletes ==
    \A i \in DOMAIN data :
        /\ data[i].repeatCounter >= 0
        /\ (data[i].gen.repeat = -1 /\ hist.pure) =>
               /\ data[i].state # "COMPLETE"
               /\ data[i].repeatCounter = Sentinel - hist.passes

C6_Witness ==
    /\ data[1].gen.repeat = -1
    /\ hist.pure
    /\ hist.passes >= 2
    /\ data[1].repeatDelay > 0

(* The count calcDuration multiplies t2 by *)
RepeatCount(td) == IF td.repeat = -1 THEN Sentinel ELSE td.repeat

(* C7: calcDuration gives every unit t1 = duration + hold (+ duration if    *)
(* yoyo), t2 = t1 + repeatDelay, totalDuration = delay + t1 + t2 * count,   *)
(* count being repeat or the sentinel for -1; and duration=1000, hold=200,  *)
(* yoyo, repeat=2, repeatDelay=100 give t1=2200, t2=2300, delay+6800.       *)
C7_CalcDuration ==
    /\ \A i \in DOMAIN data :
          LET td == data[i] IN
          /\ td.t1 = td.duration + td.hold + (IF td.yoyo THEN td.duration ELSE 0)
          /\ td.t2 = td.t1 + td.repeatDelay
          /\ td.totalDuration = td.delay + td.t1 + td.t2 * RepeatCount(td)
    /\ \A dl \in {0, 50} :
          LET e == CalcTweenData([delay |-> dl, duration |-> 1000, hold |-> 200,
                                  yoyo |-> TRUE, repeat |-> 2, repeatDelay |-> 100,
                                  t1 |-> 0, t2 |-> 0, totalDuration |-> 0])
          IN  e.t1 = 2200 /\ e.t2 = 2300 /\ e.totalDuration = dl + 6800

C7_Witness ==
    /\ data[1].yoyo
    /\ data[1].hold > 0
    /\ data[1].repeat = -1
    /\ data[1].repeatDelay > 0
    /\ data[1].delay > 0
    /\ data[1].totalDuration > data[1].t2 * Sentinel

(* C10: for a yoyo unit with identity ease, the value written at progress   *)
(* 1-x of the backward pass is the value written at progress x of the       *)
(* forward pass, and the backward pass ends by writing exactly start.       *)
C10_YoyoSymmetry ==
    LET td == data[1] IN
    (td.yoyo /\ td.ease = "Linear" /\ td.target # 0 /\ ~threw
        /\ last.op = "updateTweenData" /\ last.from = "PLAYING_BACKWARD") =>
        /\ (td.state = "PLAYING_BACKWARD" /\ (td.duration - td.elapsed) \in DOMAIN hist.fwd) =>
               /\ td.current = hist.fwd[td.duration - td.elapsed]
               /\ prop[1].val = td.current
        /\ hist.ended => (td.current = td.start /\ prop[1].val = td.start)

C10_Witness ==
    LET td == data[1] IN
    /\ td.yoyo /\ td.ease = "Linear" /\ td.target # 0
    /\ last.op = "updateTweenData" /\ last.from = "PLAYING_BACKWARD"
    /\ td.state = "PLAYING_BACKWARD"
    /\ (td.duration - td.elapsed) \in DOMAIN hist.fwd
    /\ td.current # td.start /\ td.current # td.end

(* A unit with identity ease, hold = 0, repeat = 0 and no yoyo, its target   *)
(* present, after an updateTweenData call                                   *)
C11_Case ==
    LET td == data[1] IN
    /\ td.ease = "Linear" /\ td.hold = 0 /\ td.repeat = 0 /\ ~td.yoyo
    /\ hist.pure /\ last.op = "updateTweenData"

(* The unit of the example: start = 0, end = 100, duration = 1000 *)
C11_Example ==
    SetTD(Machine, 1, [data[1] EXCEPT !.state = "PLAYING_FORWARD", !.ease = "Linear",
                                      !.start = RInt(0), !.end = RInt(100),
                                      !.current = RInt(0), !.duration = 1000,
                                      !.elapsed = 0, !.hold = 0, !.yoyo = FALSE,
                                      !.repeat = 0, !.repeatCounter = 0,
                                      !.flipX = FALSE, !.flipY = FALSE, !.target = 1])

(* C11: a call on such a unit in PLAYING_FORWARD leaves current = start +    *)
(* (end - start) * elapsed / duration, written to target[key], the unit      *)
(* COMPLETE exactly when elapsed has reached duration; start = 0, end = 100, *)
(* duration = 1000 give 50 after 500 and 100 and COMPLETE after 500 more;    *)
(* a call on a COMPLETE unit changes nothing and returns false.              *)
C11_LinearValueThenInert ==
    /\ [](LET td == data[1] IN
          /\ (C11_Case /\ last.from = "PLAYING_FORWARD") =>
                 /\ td.current = RAdd(td.start, RMul(RSub(td.end, td.start),
                                                    Rat(td.elapsed, td.duration)))
                 /\ prop[1].val = td.current
                 /\ td.state \in {"PLAYING_FORWARD", "COMPLETE"}
                 /\ (td.state = "COMPLETE") <=> (td.elapsed = td.duration)
                 /\ last.ret <=> (td.state = "PLAYING_FORWARD")
          /\ LET m1 == updateTweenData(C11_Example, 1, 500)
                 m2 == updateTweenData(m1, 1, 500)
                 m3 == updateTweenData(m2, 1, 500)
             IN  /\ m1.data[1].current = RInt(50) /\ m1.prop[1].val = RInt(50)
                 /\ m1.data[1].state = "PLAYING_FORWARD"
                 /\ m2.data[1].current = RInt(100) /\ m2.prop[1].val = RInt(100)
                 /\ m2.data[1].state = "COMPLETE"
                 /\ m3.data = m2.data /\ m3.prop = m2.prop /\ ~StillPlaying(m3, 1))
    /\ [][(data[1].state = "COMPLETE" /\ last'.op = "updateTweenData") =>
              (data' = data /\ prop' = prop /\ tw' = tw /\ ev' = <<>> /\ cb' = <<>>
               /\ ~threw' /\ ~last'.ret)]_vars

C11_Witness ==
    LET td == data[1] IN
    /\ C11_Case /\ last.from = "COMPLETE"
    /\ td.state = "COMPLETE"
    /\ td.current = td.end /\ td.end # td.start
    /\ td.duration > MaxDelta

(* What a pass leaves over when it ends: the time by which the call         *)
(* overshot the end of the pass or of the hold.                             *)
C12_Diff(td, delta) ==
    IF td.state = "HOLD_DELAY" THEN Abs(td.elapsed - delta)
    ELSE Max(td.elapsed + delta - td.duration, 0)

(* C12: a unit with finite repeat = n, its target present, has received the *)
(* repeat notification once for every repeat begun, so n times when it is   *)
(* COMPLETE, and never twice in a call; with repeatDelay > 0 the end of a   *)
(* pass leaves it in REPEAT_DELAY with elapsed = repeatDelay - diff and     *)
(* current = start written to the target, without the notification, which   *)
(* is delivered by the call that ends the delay, entering PLAYING_FORWARD.  *)
C12_RepeatNotifiedOncePerRepeat ==
    /\ [](LET td == data[1] IN
          (td.gen.repeat >= 0 /\ hist.pure) =>
              /\ hist.repeats = td.repeat - td.repeatCounter
                                  - (IF td.state = "REPEAT_DELAY" THEN 1 ELSE 0)
              /\ td.state = "COMPLETE" => hist.repeats = td.repeat
              /\ Emitted(ev, "repeat") <= 1)
    /\ [][(hist'.pure /\ last'.op = "updateTweenData" /\ data[1].repeatDelay > 0
             /\ data[1].state # "REPEAT_DELAY" /\ data'[1].repeatCounter < data[1].repeatCounter) =>
              /\ data'[1].state = "REPEAT_DELAY"
              /\ data'[1].elapsed = data[1].repeatDelay - C12_Diff(data[1], last'.delta)
              /\ data'[1].current = data'[1].start
              /\ prop'[1].val = data'[1].start
              /\ Emitted(ev', "repeat") = 0]_vars
    /\ [][(hist'.pure /\ last'.op = "updateTweenData" /\ data[1].state = "REPEAT_DELAY") =>
              IF data[1].elapsed - last'.delta <= 0
              THEN /\ data'[1].state = "PLAYING_FORWARD"
                   /\ data'[1].elapsed = Abs(data[1].elapsed - last'.delta)
                   /\ Emitted(ev', "repeat") = 1
              ELSE /\ data'[1].state = "REPEAT_DELAY"
                   /\ Emitted(ev', "repeat") = 0]_vars

C12_Witness ==
    LET td == data[1] IN
    /\ td.gen.repeat = 1 /\ td.repeatDelay > 0 /\ td.duration > 1 /\ hist.pure
    /\ td.state = "COMPLETE"
    /\ hist.repeats = 1
    /\ Emitted(ev, "repeat") = 0

(* Where a unit stands on its own timeline: its delay, the cycles of        *)
(* forward, hold, backward and repeat delay it has been through, and the    *)
(* time into (or, counting down, left of) its present segment               *)
UnitPosition(td) ==
    td.delay + (Counter(td.repeat) - td.repeatCounter) * td.t2 +
    CASE td.state = "DELAY" -> 0 - td.elapsed
      [] td.state = "PENDING_RENDER" -> td.elapsed
      [] td.state = "PLAYING_FORWARD" -> td.elapsed
      [] td.state = "HOLD_DELAY" -> td.duration + td.hold - td.elapsed
      [] td.state = "PLAYING_BACKWARD" -> td.duration + td.hold + td.elapsed
      [] td.state = "REPEAT_DELAY" -> 0 - td.elapsed
      [] OTHER -> td.t1

(* A unit with its target, driven by updateTweenData alone and not done *)
C22_Case ==
    /\ hist.pure /\ ~threw
    /\ data[1].target # 0
    /\ data[1].state # "COMPLETE"

(* C22 as stated: at every tick the unit's position on its own timeline    *)
(* equals the sum of the deltas it has been given.                         *)
C22_NoTimeLost ==
    C22_Case => UnitPosition(data[1]) = hist.sum

(* C22, amended: the delta of the one call made on the unit while it is    *)
(* PENDING_RENDER is not played; but for it, the unit's position on its    *)
(* own timeline equals the sum of the deltas it has been given, across     *)
(* every segment boundary.                                                 *)
C22_NoTimeLostButRender ==
    C22_Case => UnitPosition(data[1]) = hist.sum - hist.rendered

C22_Witness ==
    /\ C22_Case
    /\ data[1].state = "PLAYING_FORWARD"
    /\ data[1].yoyo /\ data[1].hold > 0 /\ data[1].repeatDelay > 0
    /\ data[1].repeat = 1 /\ data[1].repeatCounter = 0
    /\ hist.rendered > 0 /\ hist.sum > data[1].t2

(* C24: in every reachable state, whatever the positive deltas (larger than *)
(* the unit's duration too), the unit's progress lies in [0, 1] and, while  *)
(* it is PLAYING_FORWARD or PLAYING_BACKWARD, 0 <= elapsed <= duration.     *)
C24_ProgressInRange ==
    ~threw =>
        /\ ~RLt(data[1].progress, RZero) /\ ~RLt(ROne, data[1].progress)
        /\ data[1].state \in {"PLAYING_FORWARD", "PLAYING_BACKWARD"} =>
               (0 <= data[1].elapsed /\ data[1].elapsed <= data[1].duration)

----------------------------------------------------------------------------
(* The Tween driven by its manager and its owner *)

TweenConfigs ==
    { TweenCfg(0, 0, 0, FALSE, AllSlots, 1, FALSE),
      TweenCfg(1, 0, 0, FALSE, AllSlots, 1, FALSE),
      TweenCfg(1, 3, 0, FALSE, AllSlots, 1, FALSE),
      TweenCfg(1, 2, 0, FALSE, AllSlots, 1, FALSE),
      TweenCfg(0, 0, 2, FALSE, AllSlots, 1, FALSE),
      TweenCfg(1, 3, 2, FALSE, {}, 2, FALSE),
      TweenCfg(-1, 0, 0, FALSE, AllSlots, 1, FALSE),
      TweenCfg(0, 0, 0, TRUE, AllSlots, 1, FALSE),
      TweenCfg(0, 0, 2, FALSE, {}, 1, TRUE) }

SingleUnits ==
    { UnitCfg(Gen(dl, du, 0, ry[1], 0), ry[2], "Linear", "value", "to", FALSE) :
          dl \in {0, 2}, du \in {0, 3}, ry \in {<<0, FALSE>>, <<1, FALSE>>, <<0, TRUE>>} }
    \cup
    { UnitCfg(Gen(0, 2, 2, 1, 2), FALSE, "Linear", "value", "to", FALSE),
      UnitCfg(Gen(0, 2, 2, 0, 0), TRUE, "Quad", "from", "rel", TRUE),
      UnitCfg(Gen(0, 2, 0, -1, 0), FALSE, "Linear", "value", "to", FALSE) }

UnitPairs ==
    { <<UnitCfg(Gen(0, 3, 0, 0, 0), FALSE, "Linear", "value", "to", FALSE),
        UnitCfg(Gen(2, 2, 0, 0, 0), FALSE, "Linear", "from", "to", FALSE)>>,
      <<UnitCfg(Gen(2, 2, 0, 1, 0), FALSE, "Linear", "value", "rel", FALSE),
        UnitCfg(Gen(3, 2, 2, 0, 0), TRUE, "Quad", "value", "to", FALSE)>> }

Scenarios ==
    { <<tc, <<uc>>>> : tc \in TweenConfigs, uc \in SingleUnits }
    \cup
    { <<tc, ucs>> : tc \in TweenConfigs, ucs \in UnitPairs }

(* The tweens that are also sought *)
SeekScenarios ==
    { sc \in Scenarios :
        /\ sc[1].loopDelay = 0 => sc[1].completeDelay = 0 /\ ~sc[1].paused
        /\ sc[1].loop = 1 => sc[1].loopDelay > 0
        /\ sc[1].loop = -1 => Len(sc[2]) = 2
        /\ \A i \in DOMAIN sc[2] : /\ sc[2][i].gen.duration # 0
                                   /\ sc[2][i].gen.repeat # -1
                                   /\ sc[2][i].gen.repeat = 1 => sc[2][i].gen.delay = 0 }

Init == \E sc \in SeekScenarios : Start(Construct(sc[1], sc[2]), MaxSeekCalls)

InitPlay == \E sc \in Scenarios : Start(Construct(sc[1], sc[2]), MaxCalls)

(* The tick, come to updateActive with the scaled delta, leaves no unit     *)
(* still running                                                           *)
ActiveTickEndsPass(m, delta) ==
    /\ m.tw.state = "PLAYING"
    /\ ~UpdateUnits(StartCheck(m, delta), 1, delta, FALSE).m.threw
    /\ ~UpdateUnits(StartCheck(m, delta), 1, delta, FALSE).stillRunning

(* update(time, delta0) on m plays the units to the end of a pass *)
EndsPass(m, delta0) ==
    /\ m.tw.state \notin {"PENDING_REMOVE", "DESTROYED"}
    /\ ~(m.tw.paused /\ ~m.tw.isSeeking)
    /\ ActiveTickEndsPass(UpdateDelayState(AddElapsed(m, ScaledDelta(m, delta0)),
                                           ScaledDelta(m, delta0)),
                          ScaledDelta(m, delta0))

(* The manager's tick: tween.update(time, delta) *)
Update(delta) ==
    /\ Running
    /\ \E m \in {update(Machine, delta)} :
       /\ Leave(m)
       /\ last' = [op |-> "update", delta |-> delta, ret |-> m.ret,
                   ended |-> EndsPass(Machine, delta)]
       /\ hist' = [hist EXCEPT !.calls = @ + 1,
                               !.sum = IF hist.pure THEN @ + delta ELSE 0,
                               !.first = IF hist.calls = 0 THEN delta ELSE @,
                               !.starts = @ + Emitted(m.ev, "start"),
                               !.played = IF EndsPass(Machine, delta) THEN @ + 1 ELSE @]
    /\ UNCHANGED hung

(* Positions and step sizes handed to seek *)
Positions == {RZero, Rat(1, 2), ROne}

Steps == {1, 2}

(* No count of the tween stands for "forever" *)
Finite == tw.loop # -1 /\ \A i \in DOMAIN data : data[i].repeat # -1 /\ data[i].gen.repeat # -1

(* tween.seek(toPosition, delta) *)
Seek(toPosition, delta) ==
    /\ Running
    /\ hist.seeks < MaxSeeks
    /\ tw.state # "DESTROYED"
    /\ Finite \/ toPosition = RZero
    /\ \E r \in {seek(Machine, toPosition, delta)} :
       /\ Leave(r.m)
       /\ hung' = r.hung
       /\ last' = [op |-> "seek", toPosition |-> toPosition, delta |-> delta,
                   updates |-> r.updates, from |-> tw.state]
       /\ hist' = [hist EXCEPT !.calls = @ + 1, !.seeks = @ + 1, !.pure = FALSE,
                               !.sum = 0, !.first = 0]

Next ==
    \/ \E delta \in Deltas : Update(delta)
    \/ \E toPosition \in Positions, delta \in Steps :
          /\ toPosition = RZero => delta = 1
          /\ Seek(toPosition, delta)
    \/ \E i \in 1 .. 2 : ClearTarget(i)

Spec == Init /\ [][Next]_vars

(* Playback alone: the manager's ticks, and targets being destroyed *)
NextPlay ==
    \/ \E delta \in Deltas : Update(delta)
    \/ \E i \in 1 .. 2 : ClearTarget(i)

SpecPlay == InitPlay /\ [][NextPlay]_vars

----------------------------------------------------------------------------
(* The Tween under its owner's controls: play, restart, stop, complete,     *)
(* updateTo, remove, destroy and seek between the manager's ticks           *)

(* A Tween built into a Timeline: the builder sets parentIsTimeline and the *)
(* offset the Timeline calculated for it.                                   *)
InTimeline(m, calculatedOffset) ==
    [m EXCEPT !.tw.parentIsTimeline = TRUE, !.tw.calculatedOffset = calculatedOffset]

UnitX == UnitCfg(Gen(0, 3, 0, 0, 0), FALSE, "Linear", "value", "to", FALSE)

UnitY == [UnitCfg(Gen(2, 2, 0, 1, 0), FALSE, "Linear", "from", "to", FALSE)
             EXCEPT !.key = "y"]

(* A unit whose callables are stateful: asked again, they return other      *)
(* values than at init                                                      *)
UnitZ == [UnitCfg(Gen(0, 3, 0, 1, 0), FALSE, "Linear", "value", "to", FALSE)
             EXCEPT !.regen = Gen(2, 0, 2, -1, 2)]

ControlScenarios ==
    { Construct(PlainTween, <<UnitX>>),
      Construct(TweenCfg(0, 0, 0, TRUE, AllSlots, 1, FALSE), <<UnitX, UnitY>>),
      Construct(TweenCfg(1, 3, 2, FALSE, AllSlots, 1, FALSE), <<UnitX>>),
      Construct(TweenCfg(0, 0, 0, FALSE, {}, 2, FALSE), <<UnitY>>),
      Construct(TweenCfg(1, 0, 0, FALSE, AllSlots, 1, FALSE), <<UnitX>>),
      Construct(PlainTween, <<UnitY>>),
      Construct(PlainTween, <<UnitZ>>),
      InTimeline(Construct(PlainTween, <<UnitX>>), 2),
      InTimeline(Construct(TweenCfg(0, 0, 0, TRUE, AllSlots, 1, FALSE), <<UnitY>>), 0) }

InitControl == \E m \in ControlScenarios : Start(m, MaxSeekCalls)

(* A control call can be made *)
Controllable == Running /\ hist.ops < MaxOps /\ tw.state # "DESTROYED"

(* The history after a control call that left machine m *)
Controlled(m) ==
    [hist EXCEPT !.calls = @ + 1, !.ops = @ + 1, !.pure = FALSE, !.sum = 0, !.first = 0,
                 !.starts = @ + Emitted(m.ev, "start")]

(* tween.play() *)
Play ==
    /\ Controllable
    /\ \E m \in {play(Machine, FALSE)} :
       /\ Leave(m)
       /\ last' = [op |-> "play", from |-> tw.state]
       /\ hist' = Controlled(m)
    /\ UNCHANGED hung

(* tween.restart() *)
Restart ==
    /\ Controllable
    /\ \E m \in {restart(Machine)} :
       /\ Leave(m)
       /\ last' = [op |-> "restart", from |-> tw.state]
       /\ hist' = Controlled(m)
    /\ UNCHANGED hung

(* tween.stop(resetTo) *)
Stop(resetTo) ==
    /\ Controllable
    /\ \E r \in {stop(Machine, resetTo)} :
       /\ Leave(r.m)
       /\ hung' = r.hung
       /\ last' = [op |-> "stop", resetTo |-> resetTo, from |-> tw.state,
                   updates |-> r.updates]
       /\ hist' = Controlled(r.m)

(* tween.complete(delay) *)
Complete(delay) ==
    /\ Controllable
    /\ \E m \in {complete(Machine, delay)} :
       /\ Leave(m)
       /\ last' = [op |-> "complete", delay |-> delay, from |-> tw.state]
       /\ hist' = [Controlled(m) EXCEPT !.sum = 0]
    /\ UNCHANGED hung

(* tween.updateTo(key, value, startToCurrent) *)
UpdateTo(key, value, startToCurrent) ==
    /\ Controllable
    /\ \E m \in {updateTo(Machine, key, value, startToCurrent)} :
       /\ Leave(m)
       /\ last' = [op |-> "updateTo", key |-> key, value |-> value,
                   startToCurrent |-> startToCurrent, from |-> tw.state]
       /\ hist' = Controlled(m)
    /\ UNCHANGED hung

(* tween.remove() *)
Remove ==
    /\ Controllable
    /\ \E m \in {remove(Machine)} :
       /\ Leave(m)
       /\ last' = [op |-> "remove", from |-> tw.state]
       /\ hist' = Controlled(m)
    /\ UNCHANGED hung

(* tween.destroy() *)
Destroy ==
    /\ Controllable
    /\ \E m \in {destroy(Machine)} :
       /\ Leave(m)
       /\ last' = [op |-> "destroy", from |-> tw.state]
       /\ hist' = Controlled(m)
    /\ UNCHANGED hung

(* tween.seek(toPosition, delta), as a control call *)
SeekControl(toPosition, delta) ==
    /\ Controllable
    /\ toPosition = RZero \/ \A i \in DOMAIN data : /\ data[i].repeat # -1
                                                     /\ data[i].regen.repeat # -1
    /\ \E r \in {seek(Machine, toPosition, delta)} :
       /\ Leave(r.m)
       /\ hung' = r.hung
       /\ last' = [op |-> "seek", toPosition |-> toPosition, delta |-> delta,
                   updates |-> r.updates, from |-> tw.state]
       /\ hist' = Controlled(r.m)

NextControl ==
    \/ \E delta \in Deltas : Update(delta)
    \/ Play
    \/ Restart
    \/ \E resetTo \in {NoValue, Rat(1, 2)} : Stop(resetTo)
    \/ \E delay \in {0, 2} : Complete(delay)
    \/ \E c \in {<<"x", TRUE>>, <<"x", FALSE>>, <<"y", FALSE>>} : UpdateTo(c[1], RInt(3), c[2])
    \/ Remove
    \/ Destroy
    \/ \E toPosition \in {RZero, Rat(1, 2)} : SeekControl(toPosition, 1)

SpecControl == InitControl /\ [][NextControl]_vars

(* A unit as resetTweenData(true) leaves it, having been td *)
UnitAfterReset(td, new) ==
    /\ new.state = (IF td.delay > 0 THEN "DELAY" ELSE "PLAYING_FORWARD")
    /\ new.elapsed = (IF td.delay > 0 THEN td.delay ELSE 0)
    /\ new.progress = RZero
    /\ new.repeatCounter = Counter(td.repeat)
    /\ new.start = GetStartValue(td, td.start)
    /\ new.end = GetEndValue(td, td.end)
    /\ new.current = new.start

----------------------------------------------------------------------------
(* Properties of the controls, under SpecControl *)

(* C13: update on a tween that is PENDING_REMOVE or DESTROYED returns true, *)
(* on a paused tween that is not seeking returns false, in both cases       *)
(* changing nothing and emitting nothing; any other update returns true     *)
(* exactly when it leaves the state PENDING_REMOVE.                         *)
C13_UpdateEarlyReturns ==
    [][last'.op = "update" =>
          IF tw.state \in {"PENDING_REMOVE", "DESTROYED"}
          THEN /\ last'.ret
               /\ tw' = tw /\ data' = data /\ prop' = prop
               /\ ev' = <<>> /\ cb' = <<>> /\ req' = <<>> /\ ~threw'
          ELSE IF tw.paused /\ ~tw.isSeeking
          THEN /\ ~last'.ret
               /\ tw' = tw /\ data' = data /\ prop' = prop
               /\ ev' = <<>> /\ cb' = <<>> /\ req' = <<>> /\ ~threw'
          ELSE ~threw' => (last'.ret <=> tw'.state = "PENDING_REMOVE")]_vars

C13_Witness ==
    /\ last.op = "update" /\ last.ret
    /\ tw.state = "DESTROYED"
    /\ hist.calls >= 3

(* C15: play() on a tween whose state is PLAYING changes no field of the    *)
(* tween or of its units; otherwise on a paused tween it clears paused and  *)
(* has the manager make the tween active; otherwise it resets the units     *)
(* and sets PLAYING, or OFFSET_DELAY with countdown = calculatedOffset in a *)
(* Timeline with a nonzero offset.                                          *)
C15_PlayWhenPlayingIsNoOp ==
    [][last'.op = "play" =>
          IF tw.state = "PLAYING"
          THEN tw' = tw /\ data' = data
          ELSE IF tw.paused
          THEN /\ ~tw'.paused
               /\ \E k \in DOMAIN req' : req'[k] \in {"makeActive", "parent.makeActive"}
          ELSE /\ \A i \in DOMAIN data :
                     /\ data'[i].progress = RZero
                     /\ data'[i].elapsed = (IF data[i].delay > 0 THEN data[i].delay ELSE 0)
                     /\ data'[i].repeatCounter = Counter(data[i].repeat)
                     /\ data'[i].state \in {"PENDING_RENDER", "DELAY", "PLAYING_FORWARD"}
               /\ IF tw.parentIsTimeline /\ tw.calculatedOffset # 0
                  THEN tw'.state = "OFFSET_DELAY" /\ tw'.countdown = tw.calculatedOffset
                  ELSE tw'.state = "PLAYING"]_vars

(* C16: restart() leaves elapsed, progress, totalElapsed and totalProgress  *)
(* at 0 whatever the state; from PLAYING it is seek(0); from REMOVED it is  *)
(* seek(0), then the parent is asked to make the tween active; from         *)
(* PENDING_REMOVE the parent is asked to reset it and nothing is sought;    *)
(* from any other state it is play().  After restart() on a PLAYING tween   *)
(* every unit has progress 0, current = start, repeatCounter restored to    *)
(* the count of the repeat it had, is                                       *)
(* in DELAY with elapsed = delay if delay > 0 and else in PLAYING_FORWARD,  *)
(* and loopCounter = loop.                                                  *)
C16_Restart ==
    [][last'.op = "restart" =>
          /\ tw'.elapsed = 0 /\ tw'.progress = RZero
          /\ tw'.totalElapsed = 0 /\ tw'.totalProgress = RZero
          /\ CASE tw.state = "PLAYING" ->
                   /\ tw' = seek(SeekResetElapsed(Machine), RZero, DefaultStep).m.tw
                   /\ data' = seek(SeekResetElapsed(Machine), RZero, DefaultStep).m.data
                   /\ req' = <<>>
                   /\ tw'.state = "PLAYING"
                   /\ tw'.loopCounter = Counter(tw.loop)
                   /\ \A i \in DOMAIN data' :
                         /\ data'[i].progress = RZero
                         /\ data'[i].current = data'[i].start
                         /\ data'[i].repeatCounter = Counter(data[i].repeat)
                         /\ IF data'[i].delay > 0
                            THEN /\ data'[i].state = "DELAY"
                                 /\ data'[i].elapsed = data'[i].delay
                            ELSE data'[i].state = "PLAYING_FORWARD"
              [] tw.state = "REMOVED" ->
                   /\ tw' = seek(SeekResetElapsed(Machine), RZero, DefaultStep).m.tw
                   /\ data' = seek(SeekResetElapsed(Machine), RZero, DefaultStep).m.data
                   /\ req' = <<"makeActive", "parent.makeActive">>
              [] tw.state = "PENDING_REMOVE" ->
                   /\ req' = <<"parent.reset">>
                   /\ data' = data /\ prop' = prop /\ ev' = <<>>
                   /\ tw'.state = "PENDING_REMOVE"
              [] OTHER ->
                   /\ tw' = play(SeekResetElapsed(Machine), FALSE).tw
                   /\ data' = play(SeekResetElapsed(Machine), FALSE).data
                   /\ req' = <<>>]_vars

C16_Witness ==
    /\ last.op = "restart" /\ last.from = "PLAYING"
    /\ tw.loop = 1 /\ tw.loopCounter = 1
    /\ hist.starts = 1 /\ hist.played = 1
    /\ data[1].state = "PLAYING_FORWARD" /\ data[1].current = data[1].start

(* What stop(resetTo) notifies, asks and leaves, when it returns *)
C17_Stopped ==
    /\ Emitted(ev', "stop") = 1
    /\ ev'[Len(ev')][1] = "stop"
    /\ Emitted(ev', "complete") = 0
    /\ Len(req') > 0 /\ req'[Len(req')] = "removeAllListeners"
    /\ tw'.state = "PENDING_REMOVE"

C18_CompleteAfterDelay ==
    [][/\ last'.op = "complete" =>
            IF last'.delay = 0
            THEN tw'.state = "PENDING_REMOVE" /\ Emitted(ev', "complete") = 1
            ELSE /\ tw'.state = "COMPLETE_DELAY" /\ tw'.countdown = last'.delay
                 /\ ev' = <<>> /\ cb' = <<>>
       /\ (last'.op = "update" /\ tw.state = "COMPLETE_DELAY" /\ ~tw.paused) =>
            /\ data' = data /\ prop' = prop
            /\ IF tw.countdown - ScaledDelta(Machine, last'.delta) > 0
               THEN /\ ~last'.ret /\ tw'.state = "COMPLETE_DELAY"
                    /\ tw'.countdown = tw.countdown - ScaledDelta(Machine, last'.delta)
                    /\ ev' = <<>>
               ELSE /\ last'.ret /\ tw'.state = "PENDING_REMOVE"
                    /\ Emitted(ev', "complete") = 1]_vars

(* C19: updateTo(key, value, startToCurrent) sets end = value on every unit *)
(* of that key, and start = current on them if startToCurrent; every other  *)
(* field of those units, every unit of another key, every field of the      *)
(* tween and every target are left as they were, and nothing is notified.   *)
C19_UpdateTo ==
    [][last'.op = "updateTo" =>
          /\ tw' = tw /\ prop' = prop /\ ev' = <<>> /\ cb' = <<>> /\ req' = <<>>
          /\ DOMAIN data' = DOMAIN data
          /\ \A i \in DOMAIN data :
                IF data[i].key = last'.key
                THEN /\ data'[i].end = last'.value
                     /\ data'[i].start = (IF last'.startToCurrent THEN data[i].current
                                                                  ELSE data[i].start)
                     /\ data'[i] = [data[i] EXCEPT !.end = data'[i].end,
                                                   !.start = data'[i].start]
                ELSE data'[i] = data[i]]_vars

C19_Witness ==
    /\ last.op = "updateTo" /\ last.startToCurrent /\ last.key = "x"
    /\ Len(data) = 2
    /\ data[1].state = "PLAYING_FORWARD" /\ data[1].elapsed > 0
    /\ data[1].end = last.value /\ data[1].start = data[1].current
    /\ data[1].start # RZero
    /\ data[2].key = "y" /\ data[2].end # last.value

(* update(time, delta) comes to updateActive: it does not return early     *)
(* and the state is PLAYING once the delay states have counted down        *)
C20_ActiveTick(delta) ==
    /\ tw.state \notin {"PENDING_REMOVE", "DESTROYED"}
    /\ ~(tw.paused /\ ~tw.isSeeking)
    /\ UpdateDelayState(AddElapsed(Machine, ScaledDelta(Machine, delta)),
                        ScaledDelta(Machine, delta)).tw.state = "PLAYING"

(* C20: while hasStarted is false and the tween is not seeking, a tick that *)
(* reaches updateActive takes the scaled delta from startDelay, and fires   *)
(* the start notification and sets hasStarted exactly if startDelay is then *)
(* <= 0; no other call fires it.  Over update, seek, restart, play, stop,   *)
(* complete and loop passes the start notification is delivered at most     *)
(* once and hasStarted never returns to false.                              *)
C20_StartOnce ==
    /\ [](hist.starts <= 1 /\ (hist.starts = 1 => tw.hasStarted))
    /\ [][tw.hasStarted => (tw'.hasStarted /\ Emitted(ev', "start") = 0)]_vars
    /\ [][(~tw.hasStarted /\ ~tw.isSeeking /\ ~threw') =>
            IF last'.op = "update" /\ C20_ActiveTick(last'.delta)
            THEN /\ tw'.startDelay = tw.startDelay - ScaledDelta(Machine, last'.delta)
                 /\ tw'.hasStarted = (tw'.startDelay <= 0)
                 /\ Emitted(ev', "start") = (IF tw'.startDelay <= 0 THEN 1 ELSE 0)
            ELSE ~tw'.hasStarted /\ Emitted(ev', "start") = 0]_vars

C20_Witness ==
    /\ tw.hasStarted /\ hist.starts = 1
    /\ last.op = "update" /\ ~last.ret
    /\ hist.ops >= 1 /\ hist.calls >= 4
    /\ tw.startDelay > 0
    /\ Emitted(ev, "start") = 0 /\ Emitted(ev, "update") > 0

C25_SeekResolvesAfresh ==
    [][(last'.op = "seek" /\ last'.toPosition = RZero /\ ~threw') =>
          \A i \in DOMAIN data :
             /\ data'[i].delay = data[i].regen.delay
             /\ data'[i].duration = Max(data[i].regen.duration, MinDuration)
             /\ data'[i].hold = data[i].regen.hold
             /\ data'[i].repeat = data[i].regen.repeat
             /\ data'[i].repeatDelay = data[i].regen.repeatDelay
             /\ data'[i].repeatCounter = Counter(data[i].regen.repeat)
             /\ data'[i].current = data'[i].start
             /\ IF data'[i].delay > 0
                THEN data'[i].state = "DELAY" /\ data'[i].elapsed = data'[i].delay
                ELSE data'[i].state = "PLAYING_FORWARD" /\ data'[i].elapsed = 0]_vars

(* C27: no notification of a unit (update, yoyo, repeat) is delivered      *)
(* outside a seek before the tween's start notification: an update call    *)
(* that delivers one is made after the start notification was delivered,   *)
(* or delivers the start notification first.                               *)
C27_StartComesFirst ==
    [][last'.op = "update" =>
          \A k \in DOMAIN ev' :
             ev'[k][1] \in {"update", "yoyo", "repeat"} =>
                \/ hist.starts >= 1
                \/ \E j \in 1 .. (k - 1) : ev'[j][1] = "start"]_vars

(* The machine of an update whose countdown has just ended in PLAYING: the  *)
(* units as updateActive(delta) leaves them                                 *)
C21_Played(delta) ==
    updateActive([AddElapsed(Machine, delta) EXCEPT !.tw.countdown = @ - delta,
                                                    !.tw.state = "PLAYING"],
                 delta)

(* C21: an update of a tween in LOOP_DELAY, OFFSET_DELAY or COMPLETE_DELAY  *)
(* takes the scaled delta from countdown; while countdown stays > 0 no unit *)
(* is advanced, no target written; on the tick it reaches <= 0 the state    *)
(* becomes PLAYING (from LOOP_DELAY, with the loop notification; from       *)
(* OFFSET_DELAY with none) and every unit is advanced by delta in that same *)
(* call, or PENDING_REMOVE (from COMPLETE_DELAY, with the completion        *)
(* notification).                                                           *)
C21_Countdown ==
    [][(/\ last'.op = "update"
        /\ tw.state \in {"LOOP_DELAY", "OFFSET_DELAY", "COMPLETE_DELAY"}
        /\ ~tw.paused /\ ~threw') =>
          IF tw.countdown - ScaledDelta(Machine, last'.delta) > 0
          THEN /\ tw'.countdown = tw.countdown - ScaledDelta(Machine, last'.delta)
               /\ tw'.state = tw.state
               /\ data' = data /\ prop' = prop /\ ev' = <<>> /\ cb' = <<>>
          ELSE CASE tw.state = "LOOP_DELAY" ->
                      /\ Emitted(ev', "loop") = 1 /\ ev'[1][1] = "loop"
                      /\ data' = C21_Played(ScaledDelta(Machine, last'.delta)).data
                      /\ prop' = C21_Played(ScaledDelta(Machine, last'.delta)).prop
                      /\ \A i \in DOMAIN data : data'[i] # data[i]
                 [] tw.state = "OFFSET_DELAY" ->
                      /\ Emitted(ev', "loop") = 0 /\ Emitted(ev', "complete") = 0
                      /\ data' = C21_Played(ScaledDelta(Machine, last'.delta)).data
                      /\ prop' = C21_Played(ScaledDelta(Machine, last'.delta)).prop
                      /\ \A i \in DOMAIN data : data'[i] # data[i]
                 [] tw.state = "COMPLETE_DELAY" ->
                      /\ tw'.state = "PENDING_REMOVE"
                      /\ Emitted(ev', "complete") = 1
                      /\ data' = data /\ prop' = prop]_vars

----------------------------------------------------------------------------
(* Properties of playback, under SpecPlay *)

(* C28: a tween brought to PENDING_REMOVE by update calls alone, its        *)
(* targets all present, has progress = 1 and totalProgress = 1 on that      *)
(* tick: totalElapsed >= totalDuration.                                     *)
C28_FinishesAtFullProgress ==
    (hist.pure /\ ~threw /\ tw.state = "PENDING_REMOVE") =>
        /\ tw.progress = ROne /\ tw.totalProgress = ROne
        /\ tw.elapsed >= tw.duration
        /\ tw.totalElapsed >= tw.totalDuration


(* Unit i has been rendered: it has left PENDING_RENDER and its first      *)
(* DELAY, in this pass or in one played before                              *)
C30_Rendered(i) ==
    data[i].state \notin {"PENDING_RENDER", "DELAY"} \/ hist.played >= 1

(* C30: after every update of a tween driven by update alone, its targets   *)
(* all present, the target's property equals the current value of every     *)
(* unit that has been rendered, the tick of a loop reset and the ticks of   *)
(* yoyo and repeat boundaries included.                                     *)
C30_TargetHoldsCurrent ==
    (/\ hist.pure /\ last.op = "update" /\ ~threw
     /\ \A i \in DOMAIN data : data[i].target # 0)
    => \A i \in DOMAIN data : C30_Rendered(i) => prop[i].val = data[i].current

(* C26: whenever a tween that is not seeking leaves LOOP_DELAY for PLAYING  *)
(* the loop event is emitted, and whenever it leaves COMPLETE_DELAY for     *)
(* PENDING_REMOVE the completion event is emitted, with or without an       *)
(* onLoop / onComplete callback, as nextState emits them when there is no   *)
(* delay.                                                                   *)
C26_DelayedEventsEmitted ==
    [][(last'.op = "update" /\ ~tw.isSeeking /\ ~threw') =>
          /\ (tw.state = "LOOP_DELAY" /\ tw'.state # "LOOP_DELAY") =>
                 (Emitted(ev', "loop") = 1 /\ ev'[1][1] = "loop")
          /\ (tw.state = "COMPLETE_DELAY" /\ tw'.state = "PENDING_REMOVE") =>
                 Emitted(ev', "complete") = 1
          /\ (tw.state = "PLAYING" /\ tw.loopDelay = 0 /\ last'.ended
                  /\ tw.loopCounter > 0) => Emitted(ev', "loop") = 1
          /\ (tw.state = "PLAYING" /\ tw'.state = "PENDING_REMOVE") =>
                 Emitted(ev', "complete") = 1]_vars

(* C14: a tick that leaves no unit running does exactly one of: (a) with    *)
(* loopCounter > 0, zeroes elapsed and progress, takes 1 from loopCounter   *)
(* and resets every unit, then LOOP_DELAY with countdown = loopDelay and no *)
(* loop notification if loopDelay > 0, else PLAYING with the loop           *)
(* notification; (b) else with completeDelay > 0, COMPLETE_DELAY with       *)
(* countdown = completeDelay; (c) else PENDING_REMOVE with the completion   *)
(* notification.  A tween with loop = n >= 0 driven by update alone has     *)
(* played n+1 passes when it is PENDING_REMOVE.                             *)
C14_NextState ==
    /\ []((hist.pure /\ tw.loop >= 0 /\ tw.state = "PENDING_REMOVE") =>
              hist.played = tw.loop + 1)
    /\ [][(last'.op = "update" /\ last'.ended) =>
          IF tw.loopCounter > 0
          THEN /\ tw'.elapsed = 0 /\ tw'.progress = RZero
               /\ tw'.loopCounter = tw.loopCounter - 1
               /\ \A i \in DOMAIN data : UnitAfterReset(data[i], data'[i])
               /\ IF tw.loopDelay > 0
                  THEN /\ tw'.state = "LOOP_DELAY" /\ tw'.countdown = tw.loopDelay
                       /\ tw.state # "LOOP_DELAY" => Emitted(ev', "loop") = 0
                  ELSE /\ tw'.state = "PLAYING" /\ Emitted(ev', "loop") = 1
               /\ Emitted(ev', "complete") = 0
          ELSE IF tw.completeDelay > 0
          THEN /\ tw'.state = "COMPLETE_DELAY" /\ tw'.countdown = tw.completeDelay
               /\ tw'.loopCounter = 0
               /\ Emitted(ev', "complete") = 0
               /\ \A i \in DOMAIN data : data'[i].state = "COMPLETE"
          ELSE /\ tw'.state = "PENDING_REMOVE"
               /\ tw'.loopCounter = 0
               /\ Emitted(ev', "complete") = 1
               /\ \A i \in DOMAIN data : data'[i].state = "COMPLETE"]_vars

C14_Witness ==
    /\ hist.pure /\ tw.loop = 1 /\ tw.state = "PENDING_REMOVE"
    /\ hist.played = 2
    /\ last.op = "update" /\ last.ended

(* A single unit with delay = 0, hold = 0, repeat = 0 and no yoyo, in a     *)
(* tween with loop = 0 and completeDelay = 0, time scales 1, not paused,    *)
(* driven by update calls alone.                                            *)
C1_Case ==
    /\ Len(data) = 1
    /\ data[1].delay = 0 /\ data[1].hold = 0 /\ data[1].repeat = 0 /\ ~data[1].yoyo
    /\ tw.loop = 0 /\ tw.completeDelay = 0
    /\ ~tw.paused /\ ~tw.useFrames /\ tw.timeScale = 1 /\ tw.parentTimeScale = 1
    /\ hist.pure
    /\ last.op = "update"

(* C1: update returns true on the first call at which the sum of the deltas *)
(* reaches the duration, and false on every earlier call.                   *)
C1_CompletesAfterDuration ==
    C1_Case => (last.ret <=> hist.sum >= data[1].duration)

(* C1 as amended: the first update call only renders the start value        *)
(* (PENDING_RENDER to PLAYING_FORWARD) and its delta is not counted: update *)
(* returns true, with the tween PENDING_REMOVE, on the first call at which  *)
(* the sum of the deltas after the first call's reaches the duration, and   *)
(* false on every earlier call.                                             *)
C1_CompletesAfterRenderAndDuration ==
    C1_Case =>
        /\ last.ret <=> (hist.sum - hist.first >= data[1].duration)
        /\ last.ret <=> (tw.state = "PENDING_REMOVE")

C1_Witness ==
    /\ C1_Case
    /\ last.ret
    /\ hist.sum - hist.first = data[1].duration
    /\ data[1].duration > MaxDelta

(* A single unit in a tween that does not loop, driven by update alone *)
C9_Case == Len(data) = 1 /\ tw.loop = 0 /\ hist.pure

(* C9: the progress of a non-looping single-unit tween stays in [0,1],      *)
(* never decreases from one update to the next and is exactly 1 on the tick *)
(* update returns true; totalProgress never decreases under update.         *)
C9_ProgressMonotonic ==
    /\ [](C9_Case => /\ RLe(RZero, tw.progress) /\ RLe(tw.progress, ROne)
                     /\ (last.op = "update" /\ last.ret) => tw.progress = ROne)
    /\ [][(C9_Case /\ hist'.pure) => RLe(tw.progress, tw.progress')]_vars
    /\ [][last'.op = "update" => RLe(tw.totalProgress, tw.totalProgress')]_vars

C9_Witness ==
    /\ C9_Case
    /\ last.op = "update" /\ last.ret
    /\ tw.progress = ROne
    /\ tw.elapsed > tw.duration
    /\ hist.calls >= 3

----------------------------------------------------------------------------
(* Properties of seek, under Spec *)

(* C3: between the call of seek and its return no notification is emitted  *)
(* and no callback slot is invoked.                                         *)
C3_SeekIsSilent ==
    last.op = "seek" => (ev = <<>> /\ cb = <<>>)

(* C4: seek terminates, after at most totalDuration / stepSize (rounded up) *)
(* update calls.                                                            *)
C4_SeekTerminates ==
    last.op = "seek" =>
        /\ ~hung
        /\ last.updates * last.delta <= tw.totalDuration + last.delta - 1

(* C29: an update or a seek that returns with the tween brought to         *)
(* PENDING_REMOVE has delivered the completion notification, and a seek to  *)
(* a position below 1 on a PLAYING tween does not bring it to               *)
(* PENDING_REMOVE at all.                                                   *)
C29_NoSilentFinish ==
    [][(/\ last'.op \in {"update", "seek"} /\ ~hung' /\ ~threw'
        /\ tw.state # "PENDING_REMOVE" /\ tw'.state = "PENDING_REMOVE")
       => /\ Emitted(ev', "complete") >= 1
          /\ ~(/\ last'.op = "seek" /\ tw.state = "PLAYING"
               /\ last'.toPosition # ROne)]_vars

(* C5: seek(p) followed at once by seek(p) leaves every unit's current      *)
(* value as the first seek left it.                                         *)
C5_SeekIdempotent ==
    [][(/\ last.op = "seek" /\ last'.op = "seek"
        /\ last'.toPosition = last.toPosition /\ last'.delta = last.delta
        /\ ~hung' /\ ~threw')
       => \A i \in DOMAIN data : data'[i].current = data[i].current]_vars

(* Right after init, and right after a seek that returned *)
C8_Case == last.op = "init" \/ (last.op = "seek" /\ ~hung /\ ~threw)

(* duration is the largest unit totalDuration, startDelay the smallest unit *)
(* delay, totalDuration = duration * (n+1) + loopDelay * n + completeDelay  *)
C8_Durations(n) ==
    /\ \A i \in DOMAIN data : data[i].totalDuration <= tw.duration
    /\ \E i \in DOMAIN data : data[i].totalDuration = tw.duration
    /\ \A i \in DOMAIN data : tw.startDelay <= data[i].delay
    /\ \E i \in DOMAIN data : tw.startDelay = data[i].delay
    /\ tw.totalDuration = tw.duration * (n + 1) + tw.loopDelay * n + tw.completeDelay

(* C8: right after init and right after every seek, duration, startDelay    *)
(* and totalDuration are as above with n = loopCounter, and loopCounter is  *)
(* loop (the sentinel for -1).                                              *)
C8_DurationInvariant ==
    C8_Case => (C8_Durations(tw.loopCounter) /\ tw.loopCounter = Counter(tw.loop))

(* C8 as amended: right after init and right after every seek, duration,    *)
(* startDelay and totalDuration are as above with n = loop (the sentinel    *)
(* for -1); loopCounter is that n after init and after seek(0), and after   *)
(* seek(p > 0) it is n less the loop passes the seek played through, so     *)
(* 0 <= loopCounter <= n.                                                   *)
C8_DurationInvariantByLoop ==
    C8_Case =>
        /\ C8_Durations(Counter(tw.loop))
        /\ 0 <= tw.loopCounter /\ tw.loopCounter <= Counter(tw.loop)
        /\ (last.op = "init" \/ last.toPosition = RZero) => tw.loopCounter = Counter(tw.loop)

C8_Witness ==
    /\ last.op = "seek" /\ ~hung /\ ~threw
    /\ tw.loopCounter < Counter(tw.loop)
    /\ Len(data) = 2
    /\ data[1].totalDuration # data[2].totalDuration

====
